---------------------------- MODULE Spec2Model ----------------------------
(***************************************************************************)
(* Model of the Patronus repository:                                       *)
(*   - the two Ansible modules firewall_rule and nat_rule (the "Config     *)
(*     Synchronizer"): parameters -> YAML rule document -> diff -> write   *)
(*     or delete of one file;                                              *)
(*   - the SDK client's error classification (BaseClient._handle_error).   *)
(***************************************************************************)
EXTENDS Integers, Sequences, FiniteSets, TLC

VARIABLES
    files,   \* path -> file content (NoFile, or a file holding YAML text)
    dirs,    \* set of directories that exist
    last,    \* record of the module invocation that ran last
    gen,     \* generate_config exercised as a pure function
    cls,     \* BaseClient._handle_error exercised as a pure function
    rpc,     \* one asynchronous client call from response to outcome
    client,  \* the AsyncPatronusClient: api_url, api_key, timeout
    calls,   \* call id -> the state of that asynchronous client call
    sessions,  \* the transport sessions (httpx.AsyncClient) that are open
    requests,  \* the HTTP requests sent so far
    main_pc,   \* where main() of examples/async_usage.py stands
    procs    \* concurrent module invocations, statement by statement

sync_vars == <<files, dirs, last>>
pure_vars == <<gen, cls, rpc>>
client_vars == <<client, calls, sessions, requests, main_pc>>
vars == <<files, dirs, last, gen, cls, rpc, client, calls, sessions, requests,
          main_pc, procs>>

(***************************************************************************)
(* Bounds.                                                                 *)
(***************************************************************************)
\* largest integer whose decimal text the YAML int resolver is modelled for
MaxInt == 99

(***************************************************************************)
(* Python values, tagged by type.                                          *)
(***************************************************************************)
None == [none |-> TRUE]
PyStr(s) == [str |-> s]
PyInt(n) == [int |-> n]
PyBool(b) == [bool |-> b]
PyList(q) == [list |-> q]
PyDict(f) == [dict |-> f]

IsNone(v) == "none" \in DOMAIN v
IsStr(v) == "str" \in DOMAIN v
IsInt(v) == "int" \in DOMAIN v
IsBool(v) == "bool" \in DOMAIN v
IsList(v) == "list" \in DOMAIN v
IsDict(v) == "dict" \in DOMAIN v

EmptyDict == PyDict(<< >>)

\* Truthy with the test "is not None" in place of truthiness
Truthy_is_not_none(v) == ~IsNone(v)

\* Python truthiness: bool(v)
Truthy(v) ==
    IF IsNone(v) THEN FALSE
    ELSE IF IsStr(v) THEN v.str # ""
    ELSE IF IsInt(v) THEN v.int # 0
    ELSE IF IsBool(v) THEN v.bool
    ELSE IF IsList(v) THEN Len(v.list) # 0
    ELSE DOMAIN v.dict # {}

\* dict.get(key, default)
Get(d, key, default) ==
    IF key \in DOMAIN d.dict THEN d.dict[key] ELSE default

\* d[key] = value (on the mapping underlying a dict)
SetItem(m, key, value) == (key :> value) @@ m

\* Python's ==: bool is a subtype of int, containers compare element-wise
Num(v) == IF IsInt(v) THEN v.int ELSE IF v.bool THEN 1 ELSE 0

RECURSIVE PyEq(_, _)
PyEq(a, b) ==
    IF (IsInt(a) \/ IsBool(a)) /\ (IsInt(b) \/ IsBool(b)) THEN Num(a) = Num(b)
    ELSE IF IsStr(a) /\ IsStr(b) THEN a.str = b.str
    ELSE IF IsNone(a) /\ IsNone(b) THEN TRUE
    ELSE IF IsList(a) /\ IsList(b) THEN
        /\ Len(a.list) = Len(b.list)
        /\ \A i \in 1..Len(a.list) : PyEq(a.list[i], b.list[i])
    ELSE IF IsDict(a) /\ IsDict(b) THEN
        /\ DOMAIN a.dict = DOMAIN b.dict
        /\ \A k \in DOMAIN a.dict : PyEq(a.dict[k], b.dict[k])
    ELSE FALSE

(***************************************************************************)
(* YAML text, as the node tree PyYAML emits and parses.  A scalar is       *)
(* either plain (its type is resolved from its text) or single-quoted      *)
(* (always a string).                                                      *)
(***************************************************************************)
Plain(text) == [scalar |-> text, style |-> "plain"]
Quoted(text) == [scalar |-> text, style |-> "single"]
SeqNode(q) == [seq |-> q]
MapNode(f) == [mapping |-> f]

\* PyYAML's implicit resolvers for plain scalars (YAML 1.1)
BoolTrueTexts == {"yes", "Yes", "YES", "true", "True", "TRUE", "on", "On", "ON"}
BoolFalseTexts == {"no", "No", "NO", "false", "False", "FALSE", "off", "Off", "OFF"}
NullTexts == {"~", "null", "Null", "NULL", ""}
IntTexts == {ToString(n) : n \in 0..MaxInt}
IntOfText == [text \in IntTexts |-> CHOOSE n \in 0..MaxInt : ToString(n) = text]
IsIntText(text) == text \in IntTexts
ParseInt(text) == IntOfText[text]

Resolve(text) ==
    IF text \in BoolTrueTexts THEN PyBool(TRUE)
    ELSE IF text \in BoolFalseTexts THEN PyBool(FALSE)
    ELSE IF text \in NullTexts THEN None
    ELSE IF IsIntText(text) THEN PyInt(ParseInt(text))
    ELSE PyStr(text)

\* representer for str: plain only when the text reads back as a string
represent_str(s) == IF IsStr(Resolve(s)) THEN Plain(s) ELSE Quoted(s)

\* yaml.dump(config, f, default_flow_style=False, sort_keys=False)
RECURSIVE yaml_dump(_)
yaml_dump(v) ==
    IF IsNone(v) THEN Plain("null")
    ELSE IF IsBool(v) THEN Plain(IF v.bool THEN "true" ELSE "false")
    ELSE IF IsInt(v) THEN Plain(ToString(v.int))
    ELSE IF IsStr(v) THEN represent_str(v.str)
    ELSE IF IsList(v) THEN SeqNode([i \in 1..Len(v.list) |-> yaml_dump(v.list[i])])
    ELSE MapNode([k \in DOMAIN v.dict |-> yaml_dump(v.dict[k])])

\* the constructor of yaml.safe_load
RECURSIVE construct(_)
construct(node) ==
    IF "scalar" \in DOMAIN node THEN
        IF node.style = "plain" THEN Resolve(node.scalar) ELSE PyStr(node.scalar)
    ELSE IF "seq" \in DOMAIN node THEN
        PyList([i \in 1..Len(node.seq) |-> construct(node.seq[i])])
    ELSE PyDict([k \in DOMAIN node.mapping |-> construct(node.mapping[k])])

\* file contents
NoFile == [exists |-> FALSE]
Unparsable == [exists |-> TRUE, invalid |-> TRUE]
YamlFile(docs) == [exists |-> TRUE, docs |-> docs]
EmptyFile == YamlFile(<< >>)


(***************************************************************************)
(* Config Synchronizer: firewall_rule.py and nat_rule.py.                  *)
(***************************************************************************)
\* the "source" sub-mapping generate_config builds (firewall_rule.py)
source_spec(params) ==
    LET source0 == << >>
        source1 == IF Truthy(params.source_address)
                   THEN SetItem(source0, "address", params.source_address) ELSE source0
        source == IF Truthy(params.source_ports)
                  THEN SetItem(source1, "ports", params.source_ports) ELSE source1
    IN  PyDict(source)

\* dest_spec with the address test copied from the source block
dest_spec_from_source(params) ==
    LET dest0 == << >>
        dest1 == IF Truthy(params.source_address)
                 THEN SetItem(dest0, "address", params.dest_address) ELSE dest0
        dest == IF Truthy(params.dest_ports)
                THEN SetItem(dest1, "ports", params.dest_ports) ELSE dest1
    IN  PyDict(dest)

\* the "destination" sub-mapping generate_config builds (firewall_rule.py)
dest_spec(params) ==
    LET dest0 == << >>
        dest1 == IF Truthy(params.dest_address)
                 THEN SetItem(dest0, "address", params.dest_address) ELSE dest0
        dest == IF Truthy(params.dest_ports)
                THEN SetItem(dest1, "ports", params.dest_ports) ELSE dest1
    IN  PyDict(dest)

\* generate_config of firewall_rule.py
firewall_generate_config(params) ==
    LET metadata0 == ("name" :> params.name)
        metadata == IF Truthy(params.description)
                    THEN SetItem(metadata0, "description", params.description)
                    ELSE metadata0
        spec0 == ("action" :> params.action) @@ ("log" :> params.log)
                 @@ ("enabled" :> params.enabled)
        spec1 == IF Truthy(params.interface)
                 THEN SetItem(spec0, "interface", params.interface) ELSE spec0
        spec2 == IF Truthy(params.direction)
                 THEN SetItem(spec1, "direction", params.direction) ELSE spec1
        spec3 == IF Truthy(params.protocol)
                 THEN SetItem(spec2, "protocol", params.protocol) ELSE spec2
        source == source_spec(params)
        spec4 == IF Truthy(source) THEN SetItem(spec3, "source", source) ELSE spec3
        dest == dest_spec(params)
        spec == IF Truthy(dest) THEN SetItem(spec4, "destination", dest) ELSE spec4
    IN  PyDict(("apiVersion" :> PyStr("patronus.firewall/v1"))
               @@ ("kind" :> PyStr("FirewallRule"))
               @@ ("metadata" :> PyDict(metadata))
               @@ ("spec" :> PyDict(spec)))

\* generate_config of nat_rule.py
nat_generate_config(params) ==
    LET metadata0 == ("name" :> params.name)
        metadata == IF Truthy(params.description)
                    THEN SetItem(metadata0, "description", params.description)
                    ELSE metadata0
        spec0 == ("nat_type" :> params.nat_type) @@ ("interface" :> params.interface)
                 @@ ("enabled" :> params.enabled)
        spec1 == IF Truthy(params.source_address)
                 THEN SetItem(spec0, "source_address", params.source_address) ELSE spec0
        spec2 == IF Truthy(params.dest_address)
                 THEN SetItem(spec1, "dest_address", params.dest_address) ELSE spec1
        spec3 == IF Truthy(params.translation_address)
                 THEN SetItem(spec2, "translation_address", params.translation_address)
                 ELSE spec2
        spec4 == IF Truthy(params.translation_port)
                 THEN SetItem(spec3, "translation_port", params.translation_port)
                 ELSE spec3
        spec5 == IF Truthy(params.protocol)
                 THEN SetItem(spec4, "protocol", params.protocol) ELSE spec4
        spec == IF Truthy(params.dest_port)
                THEN SetItem(spec5, "dest_port", params.dest_port) ELSE spec5
    IN  PyDict(("apiVersion" :> PyStr("patronus.firewall/v1"))
               @@ ("kind" :> PyStr("NatRule"))
               @@ ("metadata" :> PyDict(metadata))
               @@ ("spec" :> PyDict(spec)))

generate_config(kind, params) ==
    IF kind = "FirewallRule" THEN firewall_generate_config(params)
    ELSE nat_generate_config(params)

\* config_file_path with the kind left out of the file name
config_file_path_no_kind(kind, config_path, name) ==
    [dirname |-> config_path, basename |-> name \o ".yaml"]

\* os.path.join(config_path, f"{Kind}-{name}.yaml"), kept as (dirname, basename)
config_file_path(kind, config_path, name) ==
    [dirname |-> config_path, basename |-> kind \o "-" \o name \o ".yaml"]

\* os.path.exists(filepath)
path_exists(fs_files, fs_dirs, filepath) ==
    /\ filepath.dirname \in fs_dirs
    /\ filepath \in DOMAIN fs_files
    /\ fs_files[filepath].exists

\* yaml.safe_load(f): a value, or an exception on text that does not parse
safe_load(content) ==
    IF "invalid" \in DOMAIN content THEN [raised |-> "YAMLError"]
    ELSE IF Len(content.docs) = 0 THEN [value |-> None]
    ELSE [value |-> construct(content.docs[1])]

\* read_existing_config with the existence test inverted: an existing file
\* is reported absent, and opening a missing one raises into the except clause
read_existing_config_inverted(fs_files, fs_dirs, filepath) ==
    IF path_exists(fs_files, fs_dirs, filepath) THEN None
    ELSE LET opened == [raised |-> "FileNotFoundError"]
         IN  IF "raised" \in DOMAIN opened THEN None ELSE opened.value

\* read_existing_config with "return {}" in the except clause
read_existing_config_empty_on_error(fs_files, fs_dirs, filepath) ==
    IF ~path_exists(fs_files, fs_dirs, filepath) THEN None
    ELSE LET loaded == safe_load(fs_files[filepath])
         IN  IF "raised" \in DOMAIN loaded THEN EmptyDict ELSE loaded.value

read_existing_config(fs_files, fs_dirs, filepath) ==
    IF ~path_exists(fs_files, fs_dirs, filepath) THEN None
    ELSE LET loaded == safe_load(fs_files[filepath])
         IN  IF "raised" \in DOMAIN loaded THEN None ELSE loaded.value

\* write_config: makedirs(dirname, exist_ok=True), then open(..., 'w') and dump
write_config(fs_files, fs_dirs, filepath, config) ==
    [files |-> [fs_files EXCEPT ![filepath] = YamlFile(<<yaml_dump(config)>>)],
     dirs |-> fs_dirs \cup {filepath.dirname}]

\* delete_config with the existence test inverted
delete_config_inverted(fs_files, fs_dirs, filepath) ==
    [files |-> IF ~path_exists(fs_files, fs_dirs, filepath)
               THEN [fs_files EXCEPT ![filepath] = NoFile]
               ELSE fs_files,
     dirs |-> fs_dirs]

\* delete_config: remove the file when it exists
delete_config(fs_files, fs_dirs, filepath) ==
    [files |-> IF path_exists(fs_files, fs_dirs, filepath)
               THEN [fs_files EXCEPT ![filepath] = NoFile]
               ELSE fs_files,
     dirs |-> fs_dirs]

\* apply_write with the check_mode test inverted
apply_write_in_check_mode(check_mode, fs_files, fs_dirs, filepath, desired_config) ==
    IF check_mode THEN write_config(fs_files, fs_dirs, filepath, desired_config)
    ELSE [files |-> fs_files, dirs |-> fs_dirs]

\* apply_write without the check_mode test
apply_write_always(check_mode, fs_files, fs_dirs, filepath, desired_config) ==
    write_config(fs_files, fs_dirs, filepath, desired_config)

\* "if not module.check_mode: write_config(filepath, desired_config)"
apply_write(check_mode, fs_files, fs_dirs, filepath, desired_config) ==
    IF ~check_mode THEN write_config(fs_files, fs_dirs, filepath, desired_config)
    ELSE [files |-> fs_files, dirs |-> fs_dirs]

\* apply_delete with the check_mode test inverted
apply_delete_in_check_mode(check_mode, fs_files, fs_dirs, filepath) ==
    IF check_mode THEN delete_config(fs_files, fs_dirs, filepath)
    ELSE [files |-> fs_files, dirs |-> fs_dirs]

\* "if not module.check_mode: delete_config(filepath)"
apply_delete(check_mode, fs_files, fs_dirs, filepath) ==
    IF ~check_mode THEN delete_config(fs_files, fs_dirs, filepath)
    ELSE [files |-> fs_files, dirs |-> fs_dirs]

\* configs_equal comparing the whole metadata mapping instead of the name
configs_equal_metadata(config1, config2) ==
    IF IsNone(config1) \/ IsNone(config2)
    THEN [value |-> IsNone(config1) /\ IsNone(config2)]
    ELSE IF ~IsDict(config1) THEN [raised |-> "AttributeError"]
    ELSE IF ~IsDict(config2) THEN [raised |-> "AttributeError"]
    ELSE [value |->
            /\ PyEq(Get(config1, "metadata", EmptyDict),
                    Get(config2, "metadata", EmptyDict))
            /\ PyEq(Get(config1, "spec", None), Get(config2, "spec", None))]

\* x.get(...) on a value that is not a dict raises AttributeError
configs_equal(config1, config2) ==
    IF IsNone(config1) \/ IsNone(config2)
    THEN [value |-> IsNone(config1) /\ IsNone(config2)]
    ELSE IF ~IsDict(config1) THEN [raised |-> "AttributeError"]
    ELSE IF ~IsDict(Get(config1, "metadata", EmptyDict)) THEN [raised |-> "AttributeError"]
    ELSE IF ~IsDict(config2) THEN [raised |-> "AttributeError"]
    ELSE IF ~IsDict(Get(config2, "metadata", EmptyDict)) THEN [raised |-> "AttributeError"]
    ELSE [value |->
            /\ PyEq(Get(Get(config1, "metadata", EmptyDict), "name", None),
                    Get(Get(config2, "metadata", EmptyDict), "name", None))
            /\ PyEq(Get(config1, "spec", None), Get(config2, "spec", None))]

\* the rule kind as it is spelled in messages
Label(kind) == IF kind = "FirewallRule" THEN "firewall rule" ELSE "NAT rule"
LabelCap(kind) == IF kind = "FirewallRule" THEN "Firewall rule" ELSE "NAT rule"

NoRule == [norule |-> TRUE]

\* what one run of main() returns and leaves on disk
Exit(changed, message, rule, fs) ==
    [failed |-> FALSE, changed |-> changed, message |-> message, rule |-> rule,
     files |-> fs.files, dirs |-> fs.dirs]
Crash(exception, fs) ==
    [failed |-> TRUE, exception |-> exception, changed |-> FALSE, message |-> "",
     rule |-> NoRule, files |-> fs.files, dirs |-> fs.dirs]

\* main() of firewall_rule.py / nat_rule.py
main(kind, params, check_mode, fs_files, fs_dirs) ==
    LET name == params.name.str
        state == params.state.str
        fs == [files |-> fs_files, dirs |-> fs_dirs]
        filepath == config_file_path(kind, params.config_path.str, name)
        existing_config == read_existing_config(fs_files, fs_dirs, filepath)
        desired_config == generate_config(kind, params)
        equal == configs_equal(existing_config, desired_config)
    IN  IF state = "present" THEN
            IF "raised" \in DOMAIN equal THEN Crash(equal.raised, fs)
            ELSE IF equal.value THEN
                Exit(FALSE,
                     LabelCap(kind) \o " '" \o name
                        \o "' already exists with desired configuration",
                     desired_config, fs)
            ELSE
                Exit(TRUE,
                     IF IsNone(existing_config)
                     THEN "Created " \o Label(kind) \o " '" \o name \o "'"
                     ELSE "Updated " \o Label(kind) \o " '" \o name \o "'",
                     desired_config,
                     apply_write(check_mode, fs_files, fs_dirs, filepath,
                                 desired_config))
        ELSE
            IF ~IsNone(existing_config) THEN
                Exit(TRUE, "Deleted " \o Label(kind) \o " '" \o name \o "'", NoRule,
                     apply_delete(check_mode, fs_files, fs_dirs, filepath))
            ELSE
                Exit(FALSE, LabelCap(kind) \o " '" \o name \o "' already absent",
                     NoRule, fs)

(***************************************************************************)
(* BaseClient._handle_error (sdk/python/src/patronus/client.py).           *)
(***************************************************************************)
\* exception objects: APIError and its subclasses carry status_code and
\* response, AuthenticationError is built from the message alone
PatronusErrorOf(type, message) == [type |-> type, message |-> message]
APIErrorOf(type, message, status_code, response) ==
    [type |-> type, message |-> message, status_code |-> status_code,
     response |-> response]

\* the class hierarchy of exceptions.py with NotFoundError and RateLimitError
\* derived from the base directly
Bases_flat ==
    [c \in {"PatronusError", "APIError", "AuthenticationError", "ValidationError",
            "NotFoundError", "RateLimitError", "AttributeError"} |->
        IF c \in {"PatronusError", "AttributeError"} THEN "Exception"
        ELSE "PatronusError"]

\* the class each exception class derives from (exceptions.py)
Bases ==
    [c \in {"PatronusError", "APIError", "AuthenticationError", "ValidationError",
            "NotFoundError", "RateLimitError", "AttributeError"} |->
        IF c \in {"PatronusError", "AttributeError"} THEN "Exception"
        ELSE IF c \in {"NotFoundError", "RateLimitError"} THEN "APIError"
        ELSE "PatronusError"]

\* issubclass(type, class): what an "except class" clause catches
RECURSIVE IsSubclass(_, _)
IsSubclass(type, class) ==
    IF type = class THEN TRUE
    ELSE IF type \notin DOMAIN Bases THEN FALSE
    ELSE IsSubclass(Bases[type], class)

\* _handle_error with the fallback message left out of .get
_handle_error_no_default(status_code, response_data) ==
    IF ~IsDict(response_data)
    THEN [raised |-> PatronusErrorOf("AttributeError", "no attribute 'get'")]
    ELSE LET message == Get(response_data, "error", None)
         IN  IF status_code = 401
             THEN [raised |-> PatronusErrorOf("AuthenticationError", message)]
             ELSE IF status_code = 404
             THEN [raised |-> APIErrorOf("NotFoundError", message, status_code,
                                         response_data)]
             ELSE IF status_code = 429
             THEN [raised |-> APIErrorOf("RateLimitError", message, status_code,
                                         response_data)]
             ELSE [raised |-> APIErrorOf("APIError", message, status_code,
                                         response_data)]

\* _handle_error without the 429 branch
_handle_error_no_429(status_code, response_data) ==
    IF ~IsDict(response_data)
    THEN [raised |-> PatronusErrorOf("AttributeError", "no attribute 'get'")]
    ELSE LET message == Get(response_data, "error", PyStr("Unknown error"))
         IN  IF status_code = 401
             THEN [raised |-> PatronusErrorOf("AuthenticationError", message)]
             ELSE IF status_code = 404
             THEN [raised |-> APIErrorOf("NotFoundError", message, status_code,
                                         response_data)]
             ELSE [raised |-> APIErrorOf("APIError", message, status_code,
                                         response_data)]

_handle_error(status_code, response_data) ==
    IF ~IsDict(response_data)
    THEN [raised |-> PatronusErrorOf("AttributeError", "no attribute 'get'")]
    ELSE LET message == Get(response_data, "error", PyStr("Unknown error"))
         IN  IF status_code = 401
             THEN [raised |-> PatronusErrorOf("AuthenticationError", message)]
             ELSE IF status_code = 404
             THEN [raised |-> APIErrorOf("NotFoundError", message, status_code,
                                         response_data)]
             ELSE IF status_code = 429
             THEN [raised |-> APIErrorOf("RateLimitError", message, status_code,
                                         response_data)]
             ELSE [raised |-> APIErrorOf("APIError", message, status_code,
                                         response_data)]

(***************************************************************************)
(* Inputs.                                                                 *)
(***************************************************************************)
ConfigPath == "/etc/patronus/config"
Kinds == {"FirewallRule", "NatRule"}
Names == {"allow-ssh"}
AllPaths == {config_file_path(k, ConfigPath, n) : k \in Kinds, n \in Names}

Present == PyStr("present")
Absent == PyStr("absent")

\* module.params of firewall_rule as the invocations of Spec supply them
FirewallParams ==
    [name : {PyStr(n) : n \in Names},
     description : {None, PyStr("ssh access")},
     action : {PyStr("allow")},
     interface : {None},
     direction : {None},
     protocol : {PyStr("tcp"), PyStr("6")},
     source_address : {None},
     source_ports : {None},
     dest_address : {None},
     dest_ports : {PyList(<<PyInt(22)>>)},
     log : {PyBool(FALSE)},
     enabled : {PyBool(TRUE)},
     state : {Present, Absent},
     config_path : {PyStr(ConfigPath)}]

\* module.params of nat_rule as the invocations of Spec supply them
NatParams ==
    [name : {PyStr(n) : n \in Names},
     description : {None, PyStr("web dnat")},
     nat_type : {PyStr("port_forward")},
     interface : {PyStr("wan0")},
     source_address : {None},
     dest_address : {None},
     translation_address : {PyStr("10.0.0.5")},
     translation_port : {PyInt(0), PyInt(80)},
     protocol : {None},
     dest_port : {None},
     enabled : {PyBool(TRUE)},
     state : {Present, Absent},
     config_path : {PyStr(ConfigPath)}]

\* files the modules did not write: a YAML list, a YAML scalar, a rule file
\* cut off after "metadata:", and one cut off after "kind:"
ListFile == YamlFile(<<SeqNode(<<Plain("1"), Plain("2")>>)>>)
ScalarFile == YamlFile(<<Plain("hello")>>)
TruncatedMetadataFile(kind) ==
    YamlFile(<<MapNode(("apiVersion" :> Plain("patronus.firewall/v1"))
                       @@ ("kind" :> Plain(kind))
                       @@ ("metadata" :> Plain("")))>>)
TruncatedKindFile(kind) ==
    YamlFile(<<MapNode(("apiVersion" :> Plain("patronus.firewall/v1"))
                       @@ ("kind" :> Plain(kind)))>>)
ForeignFiles(kind) ==
    {ListFile, ScalarFile, TruncatedMetadataFile(kind), TruncatedKindFile(kind)}
InitialFiles(kind) == {NoFile, Unparsable, EmptyFile} \cup ForeignFiles(kind)
KindOf(filepath) ==
    CHOOSE k \in Kinds : \E n \in Names : filepath = config_file_path(k, ConfigPath, n)

Idle == [pc |-> "idle"]

\* no client, no call, no session, no request
ClientIdle ==
    /\ client = Idle
    /\ calls = << >>
    /\ sessions = {}
    /\ requests = {}
    /\ main_pc = "idle"

(***************************************************************************)
(* Spec: sequences of module invocations against one config directory.     *)
(***************************************************************************)
Init ==
    /\ dirs \in {{}, {ConfigPath}}
    /\ files \in [AllPaths -> UNION {InitialFiles(k) : k \in Kinds}]
    /\ \A p \in AllPaths : files[p] \in InitialFiles(KindOf(p))
    /\ dirs = {} => \A p \in AllPaths : files[p] = NoFile
    /\ last = [called |-> FALSE]
    /\ gen = Idle
    /\ cls = Idle
    /\ rpc = Idle
    /\ ClientIdle
    /\ procs = << >>

\* one run of a module: everything main() does, up to exit_json
Invoke(kind, params, check_mode) ==
    LET filepath == config_file_path(kind, params.config_path.str, params.name.str)
        run == main(kind, params, check_mode, files, dirs)
    IN  /\ files' = run.files
        /\ dirs' = run.dirs
        /\ last' = [called |-> TRUE, kind |-> kind, params |-> params,
                    check_mode |-> check_mode, filepath |-> filepath,
                    repeat |-> /\ last.called
                               /\ ~last.failed /\ ~last.check_mode
                               /\ last.kind = kind /\ last.params = params,
                    before |-> IF filepath.dirname \in dirs THEN files[filepath]
                               ELSE NoFile,
                    existing |-> read_existing_config(files, dirs, filepath),
                    failed |-> run.failed, changed |-> run.changed,
                    message |-> run.message, rule |-> run.rule]
        /\ UNCHANGED <<pure_vars, client_vars, procs>>

FirewallRule == \E params \in FirewallParams, check_mode \in BOOLEAN :
    Invoke("FirewallRule", params, check_mode)

NatRule == \E params \in NatParams, check_mode \in BOOLEAN :
    Invoke("NatRule", params, check_mode)

Next == FirewallRule \/ NatRule

Spec == Init /\ [][Next]_vars

(***************************************************************************)
(* SpecGen: generate_config applied to every parameter set of a wider      *)
(* range (unset, empty and non-empty values of the optional parameters).   *)
(***************************************************************************)
GenFirewallParams ==
    [name : {PyStr("allow-ssh")},
     description : {None, PyStr(""), PyStr("ssh access")},
     action : {PyStr("allow"), PyStr("deny")},
     interface : {None, PyStr("eth0")},
     direction : {None, PyStr("inbound")},
     protocol : {None, PyStr(""), PyStr("tcp")},
     source_address : {None, PyStr(""), PyStr("10.0.0.0/8")},
     source_ports : {None, PyList(<< >>), PyList(<<PyInt(1024), PyInt(0)>>)},
     dest_address : {None, PyStr("192.168.1.10")},
     dest_ports : {None, PyList(<< >>), PyList(<<PyInt(22)>>)},
     log : {PyBool(FALSE), PyBool(TRUE)},
     enabled : {PyBool(TRUE)},
     state : {Present},
     config_path : {PyStr(ConfigPath)}]

GenNatParams ==
    [name : {PyStr("web")},
     description : {None, PyStr(""), PyStr("web dnat")},
     nat_type : {PyStr("destination"), PyStr("port_forward")},
     interface : {PyStr("wan0")},
     source_address : {None, PyStr("10.0.0.0/8")},
     dest_address : {None, PyStr("")},
     translation_address : {None, PyStr(""), PyStr("10.0.0.5")},
     translation_port : {None, PyInt(0), PyInt(80)},
     protocol : {None, PyStr("tcp")},
     dest_port : {None, PyInt(0), PyInt(443)},
     enabled : {PyBool(TRUE), PyBool(FALSE)},
     state : {Present},
     config_path : {PyStr(ConfigPath)}]

InitGen ==
    /\ dirs = {}
    /\ files = [p \in AllPaths |-> NoFile]
    /\ last = [called |-> FALSE]
    /\ cls = Idle
    /\ rpc = Idle
    /\ ClientIdle
    /\ procs = << >>
    /\ gen \in {[pc |-> "params", kind |-> "FirewallRule", params |-> p] :
                    p \in GenFirewallParams}
          \cup {[pc |-> "params", kind |-> "NatRule", params |-> p] :
                    p \in GenNatParams}

GenerateFirewall ==
    /\ gen.pc = "params"
    /\ gen.kind = "FirewallRule"
    /\ gen' = [pc |-> "config", kind |-> gen.kind, params |-> gen.params,
               config |-> firewall_generate_config(gen.params)]
    /\ UNCHANGED <<sync_vars, cls, rpc, client_vars, procs>>

GenerateNat ==
    /\ gen.pc = "params"
    /\ gen.kind = "NatRule"
    /\ gen' = [pc |-> "config", kind |-> gen.kind, params |-> gen.params,
               config |-> nat_generate_config(gen.params)]
    /\ UNCHANGED <<sync_vars, cls, rpc, client_vars, procs>>

NextGen == GenerateFirewall \/ GenerateNat

SpecGen == InitGen /\ [][NextGen]_vars

(***************************************************************************)
(* SpecClassify: _handle_error applied to every status code and decoded    *)
(* body of a bounded range.                                                *)
(***************************************************************************)
StatusCodes == {200, 201, 204, 302, 400, 401, 403, 404, 409, 429, 500, 503}

ResponseBodies ==
    {PyDict(<< >>),
     PyDict("error" :> PyStr("Unauthorized")),
     PyDict("error" :> PyStr("Resource not found")),
     PyDict("error" :> PyStr("too many requests")),
     PyDict("message" :> PyStr("Internal server error")),
     PyDict(("error" :> PyStr("Internal server error")) @@ ("code" :> PyInt(7)))}

InitClassify ==
    /\ dirs = {}
    /\ files = [p \in AllPaths |-> NoFile]
    /\ last = [called |-> FALSE]
    /\ gen = Idle
    /\ rpc = Idle
    /\ ClientIdle
    /\ procs = << >>
    /\ cls \in [pc : {"called"}, status_code : StatusCodes,
                response_data : ResponseBodies]

\* one call of _handle_error: it either raises or returns
HandleError ==
    /\ cls.pc = "called"
    /\ LET outcome == _handle_error(cls.status_code, cls.response_data)
       IN  cls' = IF "raised" \in DOMAIN outcome
                  THEN [pc |-> "raised", status_code |-> cls.status_code,
                        response_data |-> cls.response_data,
                        exception |-> outcome.raised]
                  ELSE [pc |-> "returned", status_code |-> cls.status_code,
                        response_data |-> cls.response_data]
    /\ UNCHANGED <<sync_vars, gen, rpc, client_vars, procs>>

NextClassify == HandleError

SpecClassify == InitClassify /\ [][NextClassify]_vars

(***************************************************************************)
(* Properties of the Config Synchronizer (checked under Spec).             *)
(***************************************************************************)
\* the document the parameters of an invocation imply
DesiredOf(inv) == generate_config(inv.kind, inv.params)

\* the text write_config leaves in the file for a document
WrittenFile(config) == YamlFile(<<yaml_dump(config)>>)

\* a parsed value that has the shape of a rule document
RuleShaped(config) ==
    /\ IsDict(config)
    /\ {"metadata", "spec"} \subseteq DOMAIN config.dict
    /\ IsDict(config.dict["metadata"])
    /\ "name" \in DOMAIN config.dict["metadata"].dict

DescriptionOf(config) == Get(config.dict["metadata"], "description", None)

\* semantic equality of section 4.3: same metadata.name and deep-equal spec
SemanticallyEqual(existing, desired) ==
    /\ RuleShaped(existing)
    /\ existing.dict["metadata"].dict["name"] = desired.dict["metadata"].dict["name"]
    /\ existing.dict["spec"] = desired.dict["spec"]

\* every file but the one at filepath is the same before and after the step
OthersUnchanged(filepath) ==
    \A p \in AllPaths \ {filepath} : files'[p] = files[p]

\* C1: a state=present invocation that repeats, with the same parameters,
\* the non-dry-run state=present invocation that ran just before it reports
\* changed=false and does not write the file.
C1_Idempotent ==
    [][(/\ last.called
        /\ ~last.failed
        /\ ~last.check_mode
        /\ last.params.state = Present
        /\ last'.kind = last.kind
        /\ last'.params = last.params)
       => (/\ ~last'.failed
           /\ last'.changed = FALSE
           /\ files' = files
           /\ dirs' = dirs)]_vars

\* the second application found the file as the first one had written it
C1_Witness ==
    /\ last.called
    /\ last.repeat
    /\ ~last.check_mode
    /\ last.params.state = Present
    /\ last.params.protocol = PyStr("6")
    /\ last.before = WrittenFile(DesiredOf(last))
    /\ ~last.changed

\* C2: when the existing document differs from the desired one only in its
\* description (same name, deep-equal spec), a state=present invocation
\* reports changed=false and leaves the file, and so the description on
\* disk, as it was.
C2_DescriptionIgnored ==
    [][(/\ last'.params.state = Present
        /\ SemanticallyEqual(last'.existing, DesiredOf(last'))
        /\ DescriptionOf(last'.existing) # DescriptionOf(DesiredOf(last')))
       => (/\ ~last'.failed
           /\ last'.changed = FALSE
           /\ files' = files
           /\ dirs' = dirs
           /\ DescriptionOf(read_existing_config(files', dirs', last'.filepath))
                = DescriptionOf(last'.existing))]_vars

C2_Witness ==
    /\ last.called
    /\ ~last.check_mode
    /\ last.params.state = Present
    /\ last.params.description = PyStr("ssh access")
    /\ SemanticallyEqual(last.existing, DesiredOf(last))
    /\ DescriptionOf(last.existing) = None
    /\ ~last.changed
    /\ files[last.filepath] = last.before

\* C3: state=absent with no existing document reports changed=false and
\* changes nothing; with an existing document it reports changed=true and,
\* outside dry-run, removes the file; a state=absent invocation that repeats
\* a non-dry-run one reports changed=false.
C3_AbsentIdempotent ==
    [][(last'.params.state = Absent)
       => (/\ ~last'.failed
           /\ IsNone(last'.existing)
                => /\ last'.changed = FALSE
                   /\ files' = files
                   /\ dirs' = dirs
           /\ ~IsNone(last'.existing)
                => /\ last'.changed = TRUE
                   /\ ~last'.check_mode
                        => /\ files'[last'.filepath] = NoFile
                           /\ OthersUnchanged(last'.filepath)
           /\ (/\ last.called
               /\ ~last.check_mode
               /\ last.params.state = Absent
               /\ last.kind = last'.kind
               /\ last.params.name = last'.params.name)
                => last'.changed = FALSE)]_vars

\* a repeated state=absent after the file was removed
C3_Witness ==
    /\ last.called
    /\ last.repeat
    /\ ~last.check_mode
    /\ last.params.state = Absent
    /\ last.filepath.dirname \in dirs
    /\ last.before = NoFile
    /\ ~last.changed

\* C4: a dry-run invocation reports what the real invocation would report
\* from the same starting state (changed, message, rule) and leaves files
\* and directories as they were.
C4_DryRun ==
    [][last'.check_mode
       => LET real == main(last'.kind, last'.params, FALSE, files, dirs)
          IN  /\ files' = files
              /\ dirs' = dirs
              /\ last'.failed = real.failed
              /\ last'.changed = real.changed
              /\ last'.message = real.message
              /\ last'.rule = real.rule]_vars

\* a dry run that reports a change it did not make
C4_Witness ==
    /\ last.called
    /\ last.check_mode
    /\ last.changed
    /\ last.params.state = Present
    /\ last.before = NoFile
    /\ files[last.filepath] = NoFile

CreatedMessage(kind, name) ==
    IF kind = "FirewallRule" THEN "Created firewall rule '" \o name \o "'"
    ELSE "Created NAT rule '" \o name \o "'"
UpdatedMessage(kind, name) ==
    IF kind = "FirewallRule" THEN "Updated firewall rule '" \o name \o "'"
    ELSE "Updated NAT rule '" \o name \o "'"

\* C5: state=present with an existing document that is not semantically
\* equal to the desired one reports changed=true, "Created" exactly when
\* the existing document was absent and "Updated" exactly when one was
\* present, and outside dry-run leaves the full desired document in the file.
C5_PresentWrites ==
    [][(/\ last'.params.state = Present
        /\ ~SemanticallyEqual(last'.existing, DesiredOf(last')))
       => (/\ ~last'.failed
           /\ last'.changed = TRUE
           /\ last'.message = CreatedMessage(last'.kind, last'.params.name.str)
                <=> IsNone(last'.existing)
           /\ last'.message = UpdatedMessage(last'.kind, last'.params.name.str)
                <=> ~IsNone(last'.existing)
           /\ ~last'.check_mode
                => /\ files'[last'.filepath] = WrittenFile(DesiredOf(last'))
                   /\ last'.filepath.dirname \in dirs'
                   /\ OthersUnchanged(last'.filepath))]_vars

\* C8: an invocation that finds a file that does not parse reports the
\* changed flag and the message it would report if no file existed at the
\* path, and does not fail.
C8_UnparsableAsMissing ==
    [][(/\ last'.filepath.dirname \in dirs
        /\ files[last'.filepath] = Unparsable)
       => LET missing == main(last'.kind, last'.params, last'.check_mode,
                              [files EXCEPT ![last'.filepath] = NoFile], dirs)
          IN  /\ ~last'.failed
              /\ ~missing.failed
              /\ last'.changed = missing.changed
              /\ last'.message = missing.message
              /\ last'.rule = missing.rule]_vars

\* an unparsable file was found and replaced as if it were missing
C8_Witness ==
    /\ last.called
    /\ last.before = Unparsable
    /\ ~last.check_mode
    /\ last.params.state = Present
    /\ last.changed
    /\ last.message = CreatedMessage(last.kind, last.params.name.str)
    /\ files[last.filepath] = WrittenFile(DesiredOf(last))

\* C9: every invocation ends by reporting a changed flag and a non-empty
\* message, and the desired document when state=present, whatever the
\* existing file holds.
C9_AlwaysReports ==
    last.called
    => /\ ~last.failed
       /\ last.message # ""
       /\ last.params.state = Present => last.rule = DesiredOf(last)

(***************************************************************************)
(* Properties of generate_config (checked under SpecGen).                  *)
(***************************************************************************)
\* an optional parameter that is unset or empty
Unset(v) == IsNone(v) \/ v = PyStr("") \/ v = PyList(<< >>)

\* a value that stands for "nothing": null, empty string, list or mapping
Blank(v) == IsNone(v) \/ v = PyStr("") \/ v = PyList(<< >>) \/ v = EmptyDict

SpecOf(config) == config.dict["spec"].dict
MetadataOf(config) == config.dict["metadata"].dict

\* optional parameters that map to a key of the same name in spec
FirewallOptional == {"interface", "direction", "protocol"}
NatOptional == {"source_address", "dest_address", "translation_address",
                "translation_port", "protocol", "dest_port"}

\* key `sub` of the sub-mapping `key` of spec is present
HasSub(config, key, sub) ==
    /\ key \in DOMAIN SpecOf(config)
    /\ sub \in DOMAIN SpecOf(config)[key].dict

\* C6: the desired document always has metadata.name and the required spec
\* fields; the key of an unset or empty optional parameter is absent; no
\* optional key holds null, an empty string, list or mapping; and
\* metadata.description is present only if a description was provided.
C6_OptionalOmitted ==
    gen.pc = "config"
    => LET params == gen.params
           config == gen.config
       IN  /\ DOMAIN config.dict = {"apiVersion", "kind", "metadata", "spec"}
           /\ config.dict["apiVersion"] = PyStr("patronus.firewall/v1")
           /\ config.dict["kind"] = PyStr(gen.kind)
           /\ MetadataOf(config)["name"] = params.name
           /\ DOMAIN MetadataOf(config) \subseteq {"name", "description"}
           /\ "description" \in DOMAIN MetadataOf(config)
                => /\ ~Unset(params.description)
                   /\ MetadataOf(config)["description"] = params.description
           /\ Unset(params.description)
                => "description" \notin DOMAIN MetadataOf(config)
           /\ gen.kind = "FirewallRule"
                => /\ SpecOf(config)["action"] = params.action
                   /\ SpecOf(config)["log"] = params.log
                   /\ SpecOf(config)["enabled"] = params.enabled
                   /\ \A k \in FirewallOptional :
                        Unset(params[k]) => k \notin DOMAIN SpecOf(config)
                   /\ Unset(params.source_address)
                        => ~HasSub(config, "source", "address")
                   /\ Unset(params.source_ports)
                        => ~HasSub(config, "source", "ports")
                   /\ Unset(params.dest_address)
                        => ~HasSub(config, "destination", "address")
                   /\ Unset(params.dest_ports)
                        => ~HasSub(config, "destination", "ports")
                   /\ \A k \in DOMAIN SpecOf(config) \ {"action", "log", "enabled"} :
                        /\ ~Blank(SpecOf(config)[k])
                        /\ k \in {"source", "destination"}
                             => \A sub \in DOMAIN SpecOf(config)[k].dict :
                                    ~Blank(SpecOf(config)[k].dict[sub])
           /\ gen.kind = "NatRule"
                => /\ SpecOf(config)["nat_type"] = params.nat_type
                   /\ SpecOf(config)["interface"] = params.interface
                   /\ SpecOf(config)["enabled"] = params.enabled
                   /\ \A k \in NatOptional :
                        Unset(params[k]) => k \notin DOMAIN SpecOf(config)
                   /\ \A k \in DOMAIN SpecOf(config) \ {"nat_type", "interface", "enabled"} :
                        ~Blank(SpecOf(config)[k])

\* a document built from parameters with empty optional values next to set ones
C6_Witness ==
    /\ gen.pc = "config"
    /\ gen.kind = "FirewallRule"
    /\ gen.params.description = PyStr("")
    /\ gen.params.protocol = PyStr("")
    /\ gen.params.source_ports = PyList(<< >>)
    /\ gen.params.interface = PyStr("eth0")
    /\ DOMAIN SpecOf(gen.config) = {"action", "log", "enabled", "interface"}
    /\ DOMAIN MetadataOf(gen.config) = {"name"}

\* the sub-mapping the provided ones of (address, ports) imply
SubMapping(address, ports) ==
    [k \in {x \in {"address", "ports"} :
                (x = "address" /\ ~Unset(address)) \/ (x = "ports" /\ ~Unset(ports))}
        |-> IF k = "address" THEN address ELSE ports]

\* the parameters of Scenario A
ScenarioA ==
    [name |-> PyStr("allow-ssh"), description |-> None, action |-> PyStr("allow"),
     interface |-> None, direction |-> None, protocol |-> PyStr("tcp"),
     source_address |-> None, source_ports |-> None, dest_address |-> None,
     dest_ports |-> PyList(<<PyInt(22)>>), log |-> PyBool(FALSE),
     enabled |-> PyBool(TRUE), state |-> Present, config_path |-> PyStr(ConfigPath)]

\* C7: in a firewall rule's document spec.source is present iff one of
\* source_address / source_ports is provided and non-empty, spec.destination
\* iff one of dest_address / dest_ports is; each holds exactly the provided
\* sub-fields; and Scenario A yields exactly the spec of the scenario.
C7_SourceDestination ==
    (gen.pc = "config" /\ gen.kind = "FirewallRule")
    => LET params == gen.params
           spec == SpecOf(gen.config)
       IN  /\ "source" \in DOMAIN spec
                <=> (~Unset(params.source_address) \/ ~Unset(params.source_ports))
           /\ "destination" \in DOMAIN spec
                <=> (~Unset(params.dest_address) \/ ~Unset(params.dest_ports))
           /\ "source" \in DOMAIN spec
                => spec["source"]
                     = PyDict(SubMapping(params.source_address, params.source_ports))
           /\ "destination" \in DOMAIN spec
                => spec["destination"]
                     = PyDict(SubMapping(params.dest_address, params.dest_ports))
           /\ params = ScenarioA
                => gen.config.dict["spec"]
                     = PyDict(("action" :> PyStr("allow")) @@ ("log" :> PyBool(FALSE))
                              @@ ("enabled" :> PyBool(TRUE))
                              @@ ("protocol" :> PyStr("tcp"))
                              @@ ("destination"
                                    :> PyDict("ports" :> PyList(<<PyInt(22)>>))))

\* a source given by its ports alone next to no destination at all
C7_Witness ==
    /\ gen.pc = "config"
    /\ gen.kind = "FirewallRule"
    /\ gen.params.source_address = PyStr("")
    /\ gen.params.source_ports = PyList(<<PyInt(1024), PyInt(0)>>)
    /\ gen.params.dest_address = None
    /\ gen.params.dest_ports = PyList(<< >>)
    /\ "source" \in DOMAIN SpecOf(gen.config)
    /\ DOMAIN SpecOf(gen.config)["source"].dict = {"ports"}
    /\ "destination" \notin DOMAIN SpecOf(gen.config)

(***************************************************************************)
(* Properties of _handle_error (checked under SpecClassify).               *)
(***************************************************************************)
\* the classification table of section 4.2
TableKind(status_code) ==
    CASE status_code = 401 -> "AuthenticationError"
      [] status_code = 404 -> "NotFoundError"
      [] status_code = 429 -> "RateLimitError"
      [] OTHER -> "APIError"

\* C10: classification never returns normally, and the one failure it
\* raises is decided by the status code alone: 401 Authentication, 404
\* NotFound, 429 RateLimit, anything else the generic API failure.
C10_Classification ==
    /\ cls.pc # "returned"
    /\ cls.pc = "raised" => cls.exception.type = TableKind(cls.status_code)

\* a rate-limited response classified
C10_Witness ==
    /\ cls.pc = "raised"
    /\ cls.status_code = 429
    /\ cls.exception.type = "RateLimitError"

\* C11: for every status code in {401, 404, 429, 500, 503} the failure
\* raised by classification has the kind of the table and carries the
\* original status code as its status_code.
C11_CarriesStatus ==
    (cls.pc = "raised" /\ cls.status_code \in {401, 404, 429, 500, 503})
    => /\ cls.exception.type = TableKind(cls.status_code)
       /\ "status_code" \in DOMAIN cls.exception
       /\ cls.exception.status_code = cls.status_code

\* C12: the message of the raised failure is the body's "error" field when
\* the body has that key and "Unknown error" when it has not; 429 with
\* {"error": "too many requests"} gives a RateLimit failure with that
\* message and status_code 429, 500 with {} a generic API failure with
\* message "Unknown error".
C12_Message ==
    cls.pc = "raised"
    => /\ "error" \in DOMAIN cls.response_data.dict
            => cls.exception.message = cls.response_data.dict["error"]
       /\ "error" \notin DOMAIN cls.response_data.dict
            => cls.exception.message = PyStr("Unknown error")
       /\ (/\ cls.status_code = 429
           /\ cls.response_data = PyDict("error" :> PyStr("too many requests")))
            => cls.exception
                 = [type |-> "RateLimitError",
                    message |-> PyStr("too many requests"),
                    status_code |-> 429,
                    response |-> PyDict("error" :> PyStr("too many requests"))]
       /\ (cls.status_code = 500 /\ cls.response_data = EmptyDict)
            => /\ cls.exception.type = "APIError"
               /\ cls.exception.message = PyStr("Unknown error")

\* Scenario E: a 500 with an empty mapping as body
C12_Witness ==
    /\ cls.pc = "raised"
    /\ cls.status_code = 500
    /\ cls.response_data = EmptyDict
    /\ cls.exception.message = PyStr("Unknown error")

\* C19: every failure classification raises is caught by a handler for
\* PatronusError, and NotFound and RateLimit failures are also caught by a
\* handler for APIError.
C19_Hierarchy ==
    cls.pc = "raised"
    => /\ IsSubclass(cls.exception.type, "PatronusError")
       /\ cls.exception.type \in {"NotFoundError", "RateLimitError"}
            => IsSubclass(cls.exception.type, "APIError")
       /\ cls.status_code \in {404, 429}
            => IsSubclass(cls.exception.type, "APIError")

\* a NotFound failure, which is both a PatronusError and an APIError
C19_Witness ==
    /\ cls.pc = "raised"
    /\ cls.status_code = 404
    /\ cls.exception.type = "NotFoundError"
    /\ IsSubclass(cls.exception.type, "APIError")
    /\ IsSubclass(cls.exception.type, "PatronusError")

(***************************************************************************)
(* The asynchronous client: AsyncSitesAPI and AsyncTunnelsAPI (client.py). *)
(***************************************************************************)
Ops == {"sites.list", "sites.get", "sites.create", "sites.delete",
        "tunnels.list", "tunnels.create"}

\* the status code each operation compares the response with
ExpectedStatus(op) ==
    CASE op \in {"sites.create", "tunnels.create"} -> 201
      [] op = "sites.delete" -> 204
      [] OTHER -> 200

\* the HTTP method each operation uses
Method(op) ==
    CASE op \in {"sites.create", "tunnels.create"} -> "POST"
      [] op = "sites.delete" -> "DELETE"
      [] OTHER -> "GET"

\* the path each operation requests ({id} stands for the id argument)
Path(op) ==
    CASE op \in {"sites.list", "sites.create"} -> "/api/v1/sites"
      [] op \in {"sites.get", "sites.delete"} -> "/api/v1/sites/{id}"
      [] OTHER -> "/api/v1/tunnels"

\* BaseClient._get_headers with the credential sent bare
_get_headers_no_bearer(self) ==
    ("Authorization" :> self.api_key)
    @@ ("Content-Type" :> "application/json")
    @@ ("User-Agent" :> "patronus-python-sdk/0.1.0")

\* BaseClient._get_headers
_get_headers(self) ==
    ("Authorization" :> "Bearer " \o self.api_key)
    @@ ("Content-Type" :> "application/json")
    @@ ("User-Agent" :> "patronus-python-sdk/0.1.0")

\* response bodies: no content, text that is not JSON, or a JSON value
EmptyBody == [text |-> ""]
HtmlBody == [text |-> "<html>Bad Gateway</html>"]
JsonBody(value) == [json |-> value]

\* response.json(): the decoded value, or a decoding error
response_json(body) ==
    IF "json" \in DOMAIN body THEN [value |-> body.json]
    ELSE [raised |-> PatronusErrorOf("JSONDecodeError", "Expecting value")]

\* the fields pydantic requires of each model (models.py)
RequiredFields(model) ==
    CASE model = "Site" -> {"id", "name", "location", "wan_interfaces",
                            "created_at", "updated_at"}
      [] model = "Tunnel" -> {"id", "name", "local_site_id", "remote_site_id",
                              "protocol", "status", "created_at", "updated_at"}
      [] model = "TunnelStatus" -> {"state"}

\* Model(**value): the typed record, or the error the construction raises
construct_model(model, value) ==
    IF ~IsDict(value)
    THEN [raised |-> PatronusErrorOf("TypeError", "argument after ** must be a mapping")]
    ELSE IF ~(RequiredFields(model) \subseteq DOMAIN value.dict)
    THEN [raised |-> PatronusErrorOf("pydantic.ValidationError", "field required")]
    ELSE IF /\ model = "Tunnel"
            /\ \/ ~IsDict(value.dict["status"])
               \/ ~(RequiredFields("TunnelStatus") \subseteq DOMAIN value.dict["status"].dict)
    THEN [raised |-> PatronusErrorOf("pydantic.ValidationError", "field required")]
    ELSE [value |-> [model |-> model, fields |-> value.dict]]

\* [Model(**item) for item in data[key]]
construct_list(model, key, data) ==
    IF ~IsDict(data)
    THEN [raised |-> PatronusErrorOf("TypeError", "indices must be integers")]
    ELSE IF key \notin DOMAIN data.dict
    THEN [raised |-> PatronusErrorOf("KeyError", key)]
    ELSE IF ~IsList(data.dict[key])
    THEN [raised |-> PatronusErrorOf("TypeError", "not iterable")]
    ELSE LET items == data.dict[key].list
             built == [i \in 1..Len(items) |-> construct_model(model, items[i])]
         IN  IF \E i \in 1..Len(items) : "raised" \in DOMAIN built[i]
             THEN [raised |-> built[CHOOSE i \in 1..Len(items) :
                                        /\ "raised" \in DOMAIN built[i]
                                        /\ \A j \in 1..(i - 1) :
                                               "raised" \notin DOMAIN built[j]].raised]
             ELSE [value |-> [i \in 1..Len(items) |-> built[i].value]]

\* what the body of an operation does once the response is in: the status
\* test, _handle_error on response.json(), and the decoding of the result
on_response(op, status_code, body) ==
    LET decoded == response_json(body)
    IN  IF status_code # ExpectedStatus(op)
        THEN IF "raised" \in DOMAIN decoded THEN decoded
             ELSE _handle_error(status_code, decoded.value)
        ELSE IF op = "sites.delete" THEN [value |-> None]
        ELSE IF "raised" \in DOMAIN decoded THEN decoded
        ELSE IF op = "sites.list" THEN construct_list("Site", "sites", decoded.value)
        ELSE IF op = "tunnels.list"
        THEN construct_list("Tunnel", "tunnels", decoded.value)
        ELSE IF op = "tunnels.create" THEN construct_model("Tunnel", decoded.value)
        ELSE construct_model("Site", decoded.value)

(***************************************************************************)
(* SpecCall: one call of every operation on every response of a bounded    *)
(* range of status codes and bodies.                                       *)
(***************************************************************************)
SiteJson ==
    PyDict(("id" :> PyStr("site-1")) @@ ("name" :> PyStr("branch-1"))
           @@ ("location" :> PyStr("Location 1"))
           @@ ("wan_interfaces" :> PyList(<<PyStr("eth0")>>))
           @@ ("created_at" :> PyStr("2025-01-01T00:00:00"))
           @@ ("updated_at" :> PyStr("2025-01-01T00:00:00")))

TunnelJson ==
    PyDict(("id" :> PyStr("tun-1")) @@ ("name" :> PyStr("hq-to-branch-1"))
           @@ ("local_site_id" :> PyStr("hq-site-id"))
           @@ ("remote_site_id" :> PyStr("site-1"))
           @@ ("protocol" :> PyStr("wireguard"))
           @@ ("status" :> PyDict("state" :> PyStr("up")))
           @@ ("created_at" :> PyStr("2025-01-01T00:00:00"))
           @@ ("updated_at" :> PyStr("2025-01-01T00:00:00")))

\* the body the API sends with the expected status of an operation
GoodBody(op) ==
    CASE op = "sites.list" -> JsonBody(PyDict("sites" :> PyList(<<SiteJson>>)))
      [] op = "tunnels.list" -> JsonBody(PyDict("tunnels" :> PyList(<<TunnelJson>>)))
      [] op = "tunnels.create" -> JsonBody(TunnelJson)
      [] op = "sites.delete" -> EmptyBody
      [] OTHER -> JsonBody(SiteJson)

CallStatusCodes == {200, 201, 204, 401, 404, 429, 500}

CallBodies ==
    {EmptyBody, HtmlBody,
     JsonBody(EmptyDict),
     JsonBody(PyDict("error" :> PyStr("too many requests"))),
     JsonBody(PyList(<< >>)),
     JsonBody(PyStr("error"))}
    \cup {GoodBody(op) : op \in Ops}

InitCall ==
    /\ dirs = {}
    /\ files = [p \in AllPaths |-> NoFile]
    /\ last = [called |-> FALSE]
    /\ gen = Idle
    /\ cls = Idle
    /\ ClientIdle
    /\ procs = << >>
    /\ rpc \in [pc : {"response"}, op : Ops, status_code : CallStatusCodes,
                body : CallBodies]

\* the call runs from the response to its return or raise
Complete ==
    /\ rpc.pc = "response"
    /\ LET outcome == on_response(rpc.op, rpc.status_code, rpc.body)
       IN  rpc' = IF "raised" \in DOMAIN outcome
                  THEN [pc |-> "raised", op |-> rpc.op,
                        status_code |-> rpc.status_code, body |-> rpc.body,
                        exception |-> outcome.raised]
                  ELSE [pc |-> "returned", op |-> rpc.op,
                        status_code |-> rpc.status_code, body |-> rpc.body,
                        result |-> outcome.value]
    /\ UNCHANGED <<sync_vars, gen, cls, client_vars, procs>>

NextCall == Complete

SpecCall == InitCall /\ [][NextCall]_vars

\* the four failures of the classification table
ClassifiedKinds == {"AuthenticationError", "NotFoundError", "RateLimitError",
                    "APIError"}

\* C13: a call that receives a status code other than the expected one ends
\* in one of the four classified failures whatever the body is (empty, not
\* JSON, JSON that is not an object), never in a decoding error.
C13_NoSecondaryError ==
    (rpc.pc \in {"raised", "returned"} /\ rpc.status_code # ExpectedStatus(rpc.op))
    => /\ rpc.pc = "raised"
       /\ rpc.exception.type \in ClassifiedKinds
       /\ rpc.exception.type = TableKind(rpc.status_code)

\* C14: an operation returns a result if and only if the status is the one
\* it expects (201 create, 204 delete with an empty result, 200 list and
\* get); on every other status it raises a classified failure.
C14_ExpectedStatusOnly ==
    rpc.pc \in {"raised", "returned"}
    => /\ rpc.pc = "returned" <=> rpc.status_code = ExpectedStatus(rpc.op)
       /\ (rpc.pc = "returned" /\ rpc.op = "sites.delete") => rpc.result = None
       /\ rpc.status_code # ExpectedStatus(rpc.op)
            => /\ rpc.pc = "raised"
               /\ rpc.exception.type \in ClassifiedKinds

(***************************************************************************)
(* One asynchronous call as a coroutine: the steps of                      *)
(*     async with httpx.AsyncClient() as http_client:                      *)
(*         response = await http_client.<method>(url, headers=..., ...)    *)
(*         <status test, decoding>                                         *)
(* calls[c] is the c-th call made on the client, sessions the open         *)
(* httpx.AsyncClient objects, requests every request handed to a session.  *)
(***************************************************************************)
NumCalls == 2

ApiKeys == {"your-api-key-here", "test-key"}

\* BaseClient.__init__
BaseClient(api_url, api_key, timeout) ==
    [api_url |-> api_url, api_key |-> api_key, timeout |-> timeout]

NoSession == 0

\* a call that has been made and has not started to run
NewCall(op, json) ==
    [pc |-> "pending", op |-> op, json |-> json, session |-> NoSession,
     event |-> [transport |-> "none", status_code |-> 0, body |-> EmptyBody],
     outcome |-> [pending |-> TRUE]]

\* httpx.AsyncClient() held by the client and shared by its calls
new_session_shared(c) == NoSession + 1

\* httpx.AsyncClient(): every call constructs a session of its own
new_session(c) == c

InFlight(c) == calls[c].pc \in {"opened", "awaiting", "closing"}
Finished(c) == calls[c].pc = "done"
Returned(c) == Finished(c) /\ "value" \in DOMAIN calls[c].outcome
Raised(c) == Finished(c) /\ "raised" \in DOMAIN calls[c].outcome
Sent(c) == {r \in requests : r.call = c}
Failed(event) ==
    \/ event.transport \notin {"ok", "none"}
    \/ event.transport = "ok" /\ \A op \in Ops : event.status_code # ExpectedStatus(op)

\* what the network does to one request of an operation
Reply(status_code, body) ==
    [transport |-> "ok", status_code |-> status_code, body |-> body]
TransportFailure(type) ==
    [transport |-> type, status_code |-> 0, body |-> EmptyBody]

ErrorBody(message) == JsonBody(PyDict("error" :> PyStr(message)))

Events(op) ==
    {Reply(ExpectedStatus(op), GoodBody(op)),
     Reply(401, ErrorBody("Unauthorized")),
     Reply(404, ErrorBody("Not found")),
     Reply(429, ErrorBody("Rate limit exceeded")),
     Reply(500, EmptyBody),
     TransportFailure("ReadTimeout"),
     TransportFailure("ConnectError")}

\* the await of the request: a transport failure is raised as it is, a
\* response goes through the status test and the decoding
on_event(op, event) ==
    IF event.transport # "ok"
    THEN [raised |-> PatronusErrorOf(event.transport, "")]
    ELSE on_response(op, event.status_code, event.body)

\* the call after its await, with a rate-limit response waited out and the
\* request sent again
resume_retry_429(call, event) ==
    IF event.transport = "ok" /\ event.status_code = 429
    THEN [call EXCEPT !.pc = "opened"]
    ELSE [call EXCEPT !.pc = "closing", !.event = event,
                      !.outcome = on_event(call.op, event)]

\* the call after its await: the outcome is fixed and the block is left
resume(call, event) ==
    [call EXCEPT !.pc = "closing", !.event = event,
                 !.outcome = on_event(call.op, event)]

\* the event loop runs calls while main() has not left the loop
LoopRunning == main_pc \notin {"returned_1", "crashed"}

\* async with httpx.AsyncClient() as http_client: __aenter__
Start(c) ==
    /\ LoopRunning
    /\ calls[c].pc = "pending"
    /\ calls' = [calls EXCEPT ![c].pc = "opened", ![c].session = new_session(c)]
    /\ sessions' = sessions \cup {new_session(c)}
    /\ UNCHANGED <<sync_vars, pure_vars, client, requests, main_pc, procs>>

\* http_client.<method>(url, json=data, headers=self.client._get_headers(), ...)
Send(c) ==
    /\ LoopRunning
    /\ calls[c].pc = "opened"
    /\ calls' = [calls EXCEPT ![c].pc = "awaiting"]
    /\ requests' = requests \cup
         {[call |-> c, seq |-> Cardinality(Sent(c)) + 1, op |-> calls[c].op,
           method |-> Method(calls[c].op), path |-> Path(calls[c].op),
           json |-> calls[c].json, headers |-> _get_headers(client),
           timeout |-> client.timeout]}
    /\ UNCHANGED <<sync_vars, pure_vars, client, sessions, main_pc, procs>>

\* the await resumes with a response or a transport failure
Respond(c) ==
    /\ LoopRunning
    /\ calls[c].pc = "awaiting"
    /\ \E event \in Events(calls[c].op) :
           calls' = [calls EXCEPT ![c] = resume(calls[c], event)]
    /\ UNCHANGED <<sync_vars, pure_vars, client, sessions, requests, main_pc, procs>>

\* the caller cancels at will; asyncio.run cancels what is left when main()
\* has returned or raised.  A call that never ran just ends; a call
\* suspended in its await gets CancelledError there and leaves the block.
Cancel(c) ==
    /\ main_pc \in {"idle", "returned_1", "crashed"}
    /\ calls[c].pc \in {"pending", "awaiting"}
    /\ calls' = [calls EXCEPT
                   ![c].pc = IF calls[c].pc = "pending" THEN "done" ELSE "closing",
                   ![c].outcome = [raised |-> PatronusErrorOf("CancelledError", "")]]
    /\ UNCHANGED <<sync_vars, pure_vars, client, sessions, requests, main_pc, procs>>

\* __aexit__ of the async with block: runs on return and on raise alike
Close(c) ==
    /\ calls[c].pc = "closing"
    /\ calls' = [calls EXCEPT ![c].pc = "done"]
    /\ sessions' = sessions \ {calls[c].session}
    /\ UNCHANGED <<sync_vars, pure_vars, client, requests, main_pc, procs>>

\* the steps the event loop can take on the calls there are
Steps ==
    \/ \E c \in 1..Len(calls) : Start(c)
    \/ \E c \in 1..Len(calls) : Send(c)
    \/ \E c \in 1..Len(calls) : Respond(c)
    \/ \E c \in 1..Len(calls) : Cancel(c)
    \/ \E c \in 1..Len(calls) : Close(c)

(***************************************************************************)
(* SpecSessions: NumCalls concurrent calls on one client.                  *)
(***************************************************************************)
SessionOps == {"sites.list", "sites.create", "sites.delete"}

\* the payload of the request of an operation ("json=data")
Payload(op) ==
    IF op = "sites.create"
    THEN PyDict(("name" :> PyStr("branch-1")) @@ ("location" :> PyStr("Location 1"))
                @@ ("wan_interfaces" :> PyList(<<PyStr("eth0")>>)))
    ELSE None

InitSessions ==
    /\ dirs = {}
    /\ files = [p \in AllPaths |-> NoFile]
    /\ last = [called |-> FALSE]
    /\ gen = Idle
    /\ cls = Idle
    /\ rpc = Idle
    /\ procs = << >>
    /\ \E api_key \in ApiKeys : client = BaseClient("https://api.patronus.io", api_key, 30)
    /\ \E ops \in [1..NumCalls -> SessionOps] :
           calls = [c \in 1..NumCalls |-> NewCall(ops[c], Payload(ops[c]))]
    /\ sessions = {}
    /\ requests = {}
    /\ main_pc = "idle"

NextSessions == Steps

SpecSessions == InitSessions /\ [][NextSessions]_vars

\* C15: every call has a session of its own from its start to its end and
\* releases it on every path: open sessions never outnumber the calls in
\* flight, are exactly the sessions of those calls, no two calls in flight
\* hold the same session, and none is open once every call has finished.
C15_SessionScoped ==
    /\ Cardinality(sessions) <= Cardinality({c \in 1..Len(calls) : InFlight(c)})
    /\ sessions = {calls[c].session : c \in {d \in 1..Len(calls) : InFlight(d)}}
    /\ \A c, d \in 1..Len(calls) :
           (c # d /\ InFlight(c) /\ InFlight(d)) => calls[c].session # calls[d].session
    /\ \A c \in 1..Len(calls) : ~InFlight(c) => calls[c].session \notin sessions
    /\ (\A c \in 1..Len(calls) : Finished(c)) => sessions = {}

\* every call has finished, one with a result, one with a failure or a
\* cancellation, and no session is left
C15_Witness ==
    /\ main_pc = "idle"
    /\ \A c \in 1..Len(calls) : Finished(c)
    /\ \E c \in 1..Len(calls) : Returned(c)
    /\ \E c \in 1..Len(calls) : Raised(c) /\ calls[c].outcome.raised.type = "CancelledError"
                                 /\ Sent(c) # {}
    /\ sessions = {}

\* two calls in flight at once, each with its own session
C15_Concurrent ==
    /\ main_pc = "idle"
    /\ \E c, d \in 1..Len(calls) : c # d /\ InFlight(c) /\ InFlight(d)

\* C16: a call sends one request and no more: never more than one, exactly
\* one once its await has ended, and every failure of the request (401, 404,
\* 429, other status, timeout, connection failure) ends the call with that
\* failure raised to the caller.
C16_OneRequest ==
    \A c \in 1..Len(calls) :
        /\ Cardinality(Sent(c)) <= 1
        /\ calls[c].pc \in {"awaiting", "closing"} => Cardinality(Sent(c)) = 1
        /\ (Finished(c) /\ calls[c].session # NoSession) => Cardinality(Sent(c)) = 1
        /\ (Finished(c) /\ Failed(calls[c].event))
             => /\ "raised" \in DOMAIN calls[c].outcome
                /\ calls[c].event.transport # "ok"
                     => calls[c].outcome.raised.type = calls[c].event.transport

\* a call answered by 429 has finished with RateLimitError after one request
C16_Witness ==
    /\ main_pc = "idle"
    /\ \E c \in 1..Len(calls) :
           /\ Raised(c)
           /\ calls[c].outcome.raised.type = "RateLimitError"
           /\ Cardinality(Sent(c)) = 1

\* C18: every request carries Authorization "Bearer <api key>", Content-Type
\* application/json and the User-Agent of the SDK; the headers are those of
\* the client's configuration, the same for every request of the client.
C18_Headers ==
    /\ \A r \in requests :
           /\ DOMAIN r.headers = {"Authorization", "Content-Type", "User-Agent"}
           /\ r.headers["Authorization"] = "Bearer " \o client.api_key
           /\ r.headers["Content-Type"] = "application/json"
           /\ r.headers["User-Agent"] = "patronus-python-sdk" \o "/0.1.0"
    /\ \A r1, r2 \in requests : r1.headers = r2.headers

\* two calls of different operations have each sent their request
C18_Witness ==
    /\ main_pc = "idle"
    /\ \E r1, r2 \in requests : r1.call # r2.call /\ r1.op # r2.op

(***************************************************************************)
(* SpecFanout: main() of examples/async_usage.py on one event loop.        *)
(*   calls[1]           sites.list                                         *)
(*   calls[2..K+1]      the K site creates handed to asyncio.gather        *)
(*   then the K tunnel creates handed to the second gather, and            *)
(*   tunnels.list last.                                                    *)
(***************************************************************************)
K == 3

\* the arguments of client.sites.create for i in range(1, 4)
SitePayload(i) ==
    PyDict(("name" :> PyStr("branch-" \o ToString(i)))
           @@ ("location" :> PyStr("Location " \o ToString(i)))
           @@ ("wan_interfaces" :> PyList(<<PyStr("eth0")>>)))

\* the arguments of client.tunnels.create for i, site in enumerate(created_sites, 1)
TunnelPayload(i, site) ==
    PyDict(("name" :> PyStr("hq-to-branch-" \o ToString(i)))
           @@ ("local_site_id" :> PyStr("hq-site-id"))
           @@ ("remote_site_id" :> site.fields["id"])
           @@ ("protocol" :> PyStr("wireguard")))

DoneTasks(tasks) == {i \in 1..Len(tasks) : tasks[i].pc = "done"}
RaisedTasks(tasks) ==
    {i \in DoneTasks(tasks) : "raised" \in DOMAIN tasks[i].outcome}

\* a join that resumes the awaiter as soon as one task has finished, with
\* the results there are
gather_first_completed(tasks) ==
    IF RaisedTasks(tasks) # {}
    THEN [raised |-> RaisedTasks(tasks)]
    ELSE IF DoneTasks(tasks) # {}
    THEN [value |-> [i \in 1..Cardinality(DoneTasks(tasks)) |->
                        tasks[CHOOSE j \in DoneTasks(tasks) :
                                Cardinality({d \in DoneTasks(tasks) : d < j}) = i - 1
                             ].outcome.value]]
    ELSE [pending |-> TRUE]

\* await asyncio.gather(*tasks): the awaiter resumes with the exception of a
\* task that has raised (raised: the tasks it may come from; the others are
\* left running), or with all results in order once every task has finished
gather(tasks) ==
    IF RaisedTasks(tasks) # {}
    THEN [raised |-> RaisedTasks(tasks)]
    ELSE IF DoneTasks(tasks) = 1..Len(tasks)
    THEN [value |-> [i \in 1..Len(tasks) |-> tasks[i].outcome.value]]
    ELSE [pending |-> TRUE]

\* an exception leaves the try block: "except PatronusError" returns 1,
\* anything else propagates out of main() and asyncio.run
Leave(exception) ==
    /\ main_pc' = IF IsSubclass(exception.type, "PatronusError")
                  THEN "returned_1" ELSE "crashed"
    /\ UNCHANGED calls

InitFanout ==
    /\ dirs = {}
    /\ files = [p \in AllPaths |-> NoFile]
    /\ last = [called |-> FALSE]
    /\ gen = Idle
    /\ cls = Idle
    /\ rpc = Idle
    /\ procs = << >>
    /\ client = BaseClient("https://api.patronus.io", "your-api-key-here", 30)
    /\ calls = <<NewCall("sites.list", None)>>
    /\ sessions = {}
    /\ requests = {}
    /\ main_pc = "list_sites"

\* sites = await client.sites.list(), then the K create coroutines
AwaitSitesList ==
    /\ main_pc = "list_sites"
    /\ Finished(1)
    /\ IF Raised(1) THEN Leave(calls[1].outcome.raised)
       ELSE /\ main_pc' = "gather_sites"
            /\ calls' = calls \o [i \in 1..K |-> NewCall("sites.create", SitePayload(i))]
    /\ UNCHANGED <<sync_vars, pure_vars, client, sessions, requests, procs>>

\* created_sites = await asyncio.gather(*site_tasks), then the tunnel coroutines
GatherSites ==
    /\ main_pc = "gather_sites"
    /\ LET created_sites == gather(SubSeq(calls, 2, K + 1))
       IN  /\ "pending" \notin DOMAIN created_sites
           /\ IF "raised" \in DOMAIN created_sites
              THEN \E i \in created_sites.raised : Leave(calls[1 + i].outcome.raised)
              ELSE /\ main_pc' = "gather_tunnels"
                   /\ calls' = calls \o
                        [i \in 1..Len(created_sites.value) |->
                            NewCall("tunnels.create",
                                    TunnelPayload(i, created_sites.value[i]))]
    /\ UNCHANGED <<sync_vars, pure_vars, client, sessions, requests, procs>>

\* tunnels = await asyncio.gather(*tunnel_tasks), then tunnels.list
GatherTunnels ==
    /\ main_pc = "gather_tunnels"
    /\ LET tunnels == gather(SubSeq(calls, K + 2, Len(calls)))
       IN  /\ "pending" \notin DOMAIN tunnels
           /\ IF "raised" \in DOMAIN tunnels
              THEN \E i \in tunnels.raised : Leave(calls[K + 1 + i].outcome.raised)
              ELSE /\ main_pc' = "list_tunnels"
                   /\ calls' = Append(calls, NewCall("tunnels.list", None))
    /\ UNCHANGED <<sync_vars, pure_vars, client, sessions, requests, procs>>

\* all_tunnels = await client.tunnels.list(), the printing loop, return 0
AwaitTunnelsList ==
    /\ main_pc = "list_tunnels"
    /\ Finished(Len(calls))
    /\ IF Raised(Len(calls)) THEN Leave(calls[Len(calls)].outcome.raised)
       ELSE main_pc' = "returned_0" /\ UNCHANGED calls
    /\ UNCHANGED <<sync_vars, pure_vars, client, sessions, requests, procs>>

NextFanout ==
    \/ Steps
    \/ AwaitSitesList
    \/ GatherSites
    \/ GatherTunnels
    \/ AwaitTunnelsList

SpecFanout == InitFanout /\ [][NextFanout]_vars

SiteCreates == {c \in 1..Len(calls) : calls[c].op = "sites.create"}
TunnelRequests == {r \in requests : r.op = "tunnels.create"}

\* C17: in the fan-out/join of main(), a tunnel-create request is issued
\* only after all K site creates have returned a site, in every
\* interleaving; when a site create has failed no tunnel create is issued.
C17_JoinBeforeDependents ==
    /\ TunnelRequests # {}
         => /\ Cardinality(SiteCreates) = K
            /\ \A c \in SiteCreates : Returned(c)
    /\ (\E c \in SiteCreates : Raised(c)) => TunnelRequests = {}
    /\ \A r \in TunnelRequests :
           \E c \in SiteCreates :
               /\ Returned(c)
               /\ r.json.dict["remote_site_id"] = calls[c].outcome.value.fields["id"]

\* the K sites are created and a tunnel create has been sent
C17_Witness ==
    /\ main_pc = "gather_tunnels"
    /\ \A c \in SiteCreates : Returned(c)
    /\ TunnelRequests # {}

\* one site create failed with a classified error while another was still
\* in flight: main() returned 1 and no tunnel create was sent
C17_FailureWitness ==
    /\ main_pc = "returned_1"
    /\ \E c \in SiteCreates : Raised(c) /\ calls[c].outcome.raised.type = "RateLimitError"
    /\ \E c \in SiteCreates : Raised(c) /\ calls[c].outcome.raised.type = "CancelledError"
    /\ TunnelRequests = {}

(***************************************************************************)
(* SpecRace: NumProcs invocations of firewall_rule running at once on the  *)
(* same rule name, each a process of its own making the system calls of    *)
(* main() in order: the read (exists, open, load), makedirs, open(.., 'w') *)
(* which truncates, the write of the dumped document at the file offset of *)
(* the process's own descriptor (0), and for "absent" exists and remove.    *)
(* The text of a file is a sequence of units, the i-th unit of a document   *)
(* being [doc, at |-> i]; a document is as long as its dump has keys and    *)
(* scalars.  A document is small enough to leave the buffer in one write.   *)
(***************************************************************************)
NumProcs == 2

RaceKind == "FirewallRule"

\* the invocations that race: a rule with a description, the rule with
\* another protocol and no description, and the removal of the rule
RaceParams ==
    {params \in FirewallParams :
        /\ IsNone(params.description) <=> params.protocol = PyStr("6")
        /\ params.state = Absent => IsNone(params.description)}

RacePath == config_file_path(RaceKind, ConfigPath, "allow-ssh")

RECURSIVE SumOver(_, _)
SumOver(f, S) ==
    IF S = {} THEN 0
    ELSE LET x == CHOOSE x \in S : TRUE IN f[x] + SumOver(f, S \ {x})

\* the length of the text the emitter produces for a node
RECURSIVE TextLen(_)
TextLen(node) ==
    IF "scalar" \in DOMAIN node THEN 1
    ELSE IF "seq" \in DOMAIN node
    THEN SumOver([i \in 1..Len(node.seq) |-> TextLen(node.seq[i])], 1..Len(node.seq))
    ELSE SumOver([k \in DOMAIN node.mapping |-> 1 + TextLen(node.mapping[k])],
                 DOMAIN node.mapping)

\* the text yaml.dump(config, f) hands to the file
Text(config) ==
    [i \in 1..TextLen(yaml_dump(config)) |-> [doc |-> config, at |-> i]]

TextFile(text) == [exists |-> TRUE, text |-> text]

\* write(2) of new text at offset 0 of a file holding old text: what lies
\* beyond the end of the new text stays
pwrite(old, new) ==
    [i \in 1..(IF Len(old) > Len(new) THEN Len(old) ELSE Len(new)) |->
        IF i <= Len(new) THEN new[i] ELSE old[i]]

\* what a reader can get from a text: nothing from an empty file, the
\* document from a whole dump; a torn text (the head of one dump followed by
\* the tail of another) either does not parse or parses to its head
load_text(content) ==
    IF ~content.exists THEN {NoFile}
    ELSE IF content.text = << >> THEN {EmptyFile}
    ELSE IF content.text = Text(content.text[1].doc)
    THEN {YamlFile(<<yaml_dump(content.text[1].doc)>>)}
    ELSE {Unparsable, YamlFile(<<yaml_dump(content.text[1].doc)>>)}

NewProc(params) ==
    [pc |-> "read", params |-> params, existing_config |-> None,
     fd |-> "none", failed |-> FALSE]

InitRace ==
    /\ \E content \in {NoFile,
                       TextFile(Text(generate_config(RaceKind,
                           CHOOSE params \in RaceParams :
                               IsNone(params.description) /\ params.state = Present)))} :
           /\ files = [p \in AllPaths |-> IF p = RacePath THEN content ELSE NoFile]
           /\ dirs = IF content.exists THEN {ConfigPath} ELSE {}
    /\ last = [called |-> FALSE]
    /\ gen = Idle
    /\ cls = Idle
    /\ rpc = Idle
    /\ ClientIdle
    /\ \E chosen \in [1..NumProcs -> RaceParams] :
           procs = [p \in 1..NumProcs |-> NewProc(chosen[p])]

\* existing_config = read_existing_config(filepath) and the branch main()
\* takes on it
Read(p) ==
    /\ procs[p].pc = "read"
    /\ \E content \in load_text(files[RacePath]) :
         LET existing_config ==
                 read_existing_config([files EXCEPT ![RacePath] = content], dirs, RacePath)
             desired_config == generate_config(RaceKind, procs[p].params)
             equal == configs_equal(existing_config, desired_config)
         IN  procs' = [procs EXCEPT
                 ![p].existing_config = existing_config,
                 ![p].failed = procs[p].params.state = Present /\ "raised" \in DOMAIN equal,
                 ![p].pc = IF procs[p].params.state = Present
                           THEN IF "raised" \in DOMAIN equal THEN "done"
                                ELSE IF equal.value THEN "done" ELSE "makedirs"
                           ELSE IF ~IsNone(existing_config) THEN "exists" ELSE "done"]
    /\ UNCHANGED <<files, dirs, last, pure_vars, client_vars>>

\* write_config: os.makedirs(os.path.dirname(filepath), exist_ok=True)
Makedirs(p) ==
    /\ procs[p].pc = "makedirs"
    /\ dirs' = dirs \cup {RacePath.dirname}
    /\ procs' = [procs EXCEPT ![p].pc = "open"]
    /\ UNCHANGED <<files, last, pure_vars, client_vars>>

\* write_config: open(filepath, 'w') creates the file or truncates it
Open(p) ==
    /\ procs[p].pc = "open"
    /\ files' = [files EXCEPT ![RacePath] = TextFile(<< >>)]
    /\ procs' = [procs EXCEPT ![p].pc = "write", ![p].fd = "open"]
    /\ UNCHANGED <<dirs, last, pure_vars, client_vars>>

\* write_config: yaml.dump(config, f) and the close of the with block; a
\* descriptor whose file has been removed writes to no name
Write(p) ==
    /\ procs[p].pc = "write"
    /\ files' = IF procs[p].fd = "open"
                THEN [files EXCEPT ![RacePath] =
                        TextFile(pwrite(files[RacePath].text,
                                        Text(generate_config(RaceKind, procs[p].params))))]
                ELSE files
    /\ procs' = [procs EXCEPT ![p].pc = "done", ![p].fd = "closed"]
    /\ UNCHANGED <<dirs, last, pure_vars, client_vars>>

\* delete_config: if os.path.exists(filepath)
Exists(p) ==
    /\ procs[p].pc = "exists"
    /\ procs' = [procs EXCEPT
                   ![p].pc = IF path_exists(files, dirs, RacePath) THEN "remove" ELSE "done"]
    /\ UNCHANGED <<files, dirs, last, pure_vars, client_vars>>

\* delete_config: os.remove(filepath); FileNotFoundError when another
\* process has removed the file since the test
Remove(p) ==
    /\ procs[p].pc = "remove"
    /\ IF path_exists(files, dirs, RacePath)
       THEN /\ files' = [files EXCEPT ![RacePath] = NoFile]
            /\ procs' = [q \in 1..Len(procs) |->
                           IF q = p THEN [procs[q] EXCEPT !.pc = "done"]
                           ELSE IF procs[q].fd = "open"
                           THEN [procs[q] EXCEPT !.fd = "orphan"]
                           ELSE procs[q]]
       ELSE /\ files' = files
            /\ procs' = [procs EXCEPT ![p].pc = "done", ![p].failed = TRUE]
    /\ UNCHANGED <<dirs, last, pure_vars, client_vars>>

NextRace ==
    \/ \E p \in 1..Len(procs) : Read(p)
    \/ \E p \in 1..Len(procs) : Makedirs(p)
    \/ \E p \in 1..Len(procs) : Open(p)
    \/ \E p \in 1..Len(procs) : Write(p)
    \/ \E p \in 1..Len(procs) : Exists(p)
    \/ \E p \in 1..Len(procs) : Remove(p)

SpecRace == InitRace /\ [][NextRace]_vars

\* C20: once all concurrent invocations on one rule name have completed,
\* the file is absent or holds in full the desired document of one of the
\* invocations, never a mixture of two documents.
C20_LastWriteWins ==
    (\A p \in 1..Len(procs) : procs[p].pc = "done")
    => \/ ~path_exists(files, dirs, RacePath)
       \/ \E p \in 1..Len(procs) :
              /\ procs[p].params.state = Present
              /\ files[RacePath] =
                     TextFile(Text(generate_config(RaceKind, procs[p].params)))

(***************************************************************************)
(* SpecFrame: invocations of both modules for two rule names in one config *)
(* directory, four rule files in all.                                      *)
(***************************************************************************)
FrameNames == {"allow-ssh", "allow-dns"}

FramePaths == {config_file_path(k, ConfigPath, n) : k \in Kinds, n \in FrameNames}

FrameFirewallParams ==
    {[params EXCEPT !.name = PyStr(n)] :
        params \in {q \in FirewallParams :
                       IsNone(q.description) /\ q.protocol = PyStr("tcp")},
        n \in FrameNames}

FrameNatParams ==
    {[params EXCEPT !.name = PyStr(n)] :
        params \in {q \in NatParams :
                       IsNone(q.description) /\ q.translation_port = PyInt(80)},
        n \in FrameNames}

InitFrame ==
    /\ dirs \in {{}, {ConfigPath}}
    /\ files \in [FramePaths -> {NoFile, Unparsable}]
    /\ dirs = {} => \A p \in FramePaths : files[p] = NoFile
    /\ last = [called |-> FALSE]
    /\ gen = Idle
    /\ cls = Idle
    /\ rpc = Idle
    /\ ClientIdle
    /\ procs = << >>

FrameFirewallRule == \E params \in FrameFirewallParams, check_mode \in BOOLEAN :
    Invoke("FirewallRule", params, check_mode)

FrameNatRule == \E params \in FrameNatParams, check_mode \in BOOLEAN :
    Invoke("NatRule", params, check_mode)

NextFrame == FrameFirewallRule \/ FrameNatRule

SpecFrame == InitFrame /\ [][NextFrame]_vars

\* the one file of rule (kind, name): {config_path}/{Kind}-{name}.yaml
RuleFile(kind, params) ==
    [dirname |-> params.config_path.str,
     basename |-> kind \o "-" \o params.name.str \o ".yaml"]

\* C21: an invocation for rule (kind, name) leaves every file but
\* {config_path}/{Kind}-{name}.yaml as it was, in every mode, and what it
\* reports and leaves in that file does not depend on the other files.
C21_OneFile ==
    [][last'.called
       => LET own == RuleFile(last'.kind, last'.params)
              alone == main(last'.kind, last'.params, last'.check_mode,
                            [p \in DOMAIN files |->
                                IF p = own THEN files[p] ELSE NoFile], dirs)
          IN  /\ own \in DOMAIN files
              /\ \A p \in DOMAIN files \ {own} : files'[p] = files[p]
              /\ last'.failed = alone.failed
              /\ last'.changed = alone.changed
              /\ last'.message = alone.message
              /\ files'[own] = alone.files[own]]_vars

\* a firewall rule has been written while the NAT rule of the same name and
\* the firewall rule of the other name hold what an earlier run wrote
C21_Witness ==
    /\ last.called
    /\ ~last.check_mode
    /\ last.changed
    /\ last.kind = "FirewallRule"
    /\ last.params.state = Present
    /\ last.params.name = PyStr("allow-ssh")
    /\ FramePaths \subseteq DOMAIN files
    /\ files[config_file_path("NatRule", ConfigPath, "allow-ssh")]
         = WrittenFile(generate_config("NatRule",
               CHOOSE q \in FrameNatParams :
                   q.name = PyStr("allow-ssh") /\ q.state = Present))
    /\ files[config_file_path("FirewallRule", ConfigPath, "allow-dns")]
         = WrittenFile(generate_config("FirewallRule",
               CHOOSE q \in FrameFirewallParams :
                   q.name = PyStr("allow-dns") /\ q.state = Present))
    /\ files[last.filepath] = WrittenFile(DesiredOf(last))

\* C22: after a non-dry-run state=absent invocation no file exists at the
\* rule's path, whatever the file held before (a rule document, nothing, or
\* text that does not parse).
C22_AbsentRemoves ==
    (/\ last.called
     /\ ~last.check_mode
     /\ last.params.state = Absent)
    => ~path_exists(files, dirs, RuleFile(last.kind, last.params))

\* a file from which read_existing_config gets no document: none, an empty
\* one, or one that does not parse
NoDocument(content) ==
    content = NoFile \/ content = EmptyFile \/ content = Unparsable

\* C22 as the code has it: a non-dry-run state=absent invocation removes
\* the file when the file held a document, and then reports changed=true;
\* when the file was missing, empty or did not parse it reports
\* changed=false and leaves at the path what was there.
C22_AbsentRemovesDocument ==
    (/\ last.called
     /\ ~last.check_mode
     /\ last.params.state = Absent)
    => /\ ~last.failed
       /\ ~NoDocument(last.before)
            => /\ last.changed
               /\ ~path_exists(files, dirs, RuleFile(last.kind, last.params))
       /\ NoDocument(last.before)
            => /\ ~last.changed
               /\ files[RuleFile(last.kind, last.params)] = last.before
                    \/ (last.before = NoFile
                        /\ ~path_exists(files, dirs, RuleFile(last.kind, last.params)))

\* a rule document written by an earlier run has been removed
C22_Witness ==
    /\ last.called
    /\ ~last.check_mode
    /\ last.params.state = Absent
    /\ last.changed
    /\ RuleShaped(construct(last.before.docs[1]))
    /\ files[last.filepath] = NoFile

\* a file that does not parse is still there after state=absent
C22_UnparsableStays ==
    /\ last.called
    /\ ~last.check_mode
    /\ last.params.state = Absent
    /\ last.before = Unparsable
    /\ files[last.filepath] = Unparsable

\* C23: outside dry-run the changed flag tells what the invocation did:
\* with changed=false files and directories are exactly as before, with
\* changed=true and state=present the one effect is the write of the desired
\* document to the rule's file (its directory made if need be), with
\* changed=true and state=absent the one effect is the removal of the rule's
\* file, which existed.  A run that ends in an exception reports no change
\* and has made none.
C23_ChangedTruthful ==
    [][(/\ last'.called
        /\ ~last'.check_mode)
       => LET own == RuleFile(last'.kind, last'.params)
          IN  /\ last'.failed => ~last'.changed
              /\ ~last'.changed => (files' = files /\ dirs' = dirs)
              /\ (last'.changed /\ last'.params.state = Present)
                   => /\ files' = [files EXCEPT ![own] = WrittenFile(DesiredOf(last'))]
                      /\ dirs' = dirs \cup {own.dirname}
              /\ (last'.changed /\ last'.params.state = Absent)
                   => /\ path_exists(files, dirs, own)
                      /\ files' = [files EXCEPT ![own] = NoFile]
                      /\ dirs' = dirs]_vars

\* a run has reported changed=true and replaced a foreign document by the
\* desired one
C23_Witness ==
    /\ last.called
    /\ ~last.check_mode
    /\ ~last.failed
    /\ last.changed
    /\ last.params.state = Present
    /\ last.before = TruncatedKindFile(last.kind)
    /\ files[last.filepath] = WrittenFile(DesiredOf(last))

\* a run has reported changed=false and left the document of an earlier run
C23_UnchangedWitness ==
    /\ last.called
    /\ ~last.check_mode
    /\ ~last.changed
    /\ last.params.state = Present
    /\ files[last.filepath] = last.before
    /\ RuleShaped(construct(last.before.docs[1]))

\* C24: in the desired document of nat_rule every optional parameter that
\* is provided (for the integer parameters translation_port and dest_port:
\* any integer, 0 included) is a key of spec holding the provided value.
C24_ProvidedAppears ==
    (gen.pc = "config" /\ gen.kind = "NatRule")
    => \A k \in NatOptional :
           ~Unset(gen.params[k])
             => /\ k \in DOMAIN SpecOf(gen.config)
                /\ SpecOf(gen.config)[k] = gen.params[k]

=============================================================================
